---- MODULE Spec2Model ----
(***************************************************************************)
(* Model of the zapdriver core (src/core.go): a zapcore.Core wrapper that  *)
(* keeps permanent labels (shared by all cores derived with With) and      *)
(* temporary labels (one store per core, filled and reset by Write),       *)
(* dispatches every entry to a remote logging client and forwards the      *)
(* decorated field set to the wrapped core.                                *)
(*                                                                         *)
(* A field key is a sequence of tokens: "labels.env" is <<"labels.",       *)
(* "env">>, so that prefix tests and prefix stripping are computed.        *)
(* A label store is a function from keys to strings.  Goroutines are the   *)
(* elements of Threads; each runs one handler at a time, one step per      *)
(* lock acquisition, critical section or external call.                    *)
(***************************************************************************)
EXTENDS Integers, Sequences, FiniteSets, TLC

VARIABLES cores, permStores, tempStores, permMutex, tempMutex, pc, loc, budget,
          supplied

vars == <<cores, permStores, tempStores, permMutex, tempMutex, pc, loc, budget,
          supplied>>

(***************************************************************************)
(* Bounds                                                                  *)
(***************************************************************************)
MaxOps == 2
SeqMaxOps == 2
MaxCores == 3
MaxFieldsLen == 1

Threads == {"t1", "t2"}
NoThread == "none"

(***************************************************************************)
(* Label stores                                                            *)
(***************************************************************************)
DOM(m) == DOMAIN m

EmptyStore == [k \in {} |-> ""]

\* newLabels(): a fresh, empty store
newLabels == EmptyStore

\* for k, v := range src { dst[k] = v }
MergeStore(dst, src) ==
  [k \in DOM(dst) \cup DOM(src) |-> IF k \in DOM(src) THEN src[k] ELSE dst[k]]

\* labels.reset(): the store is replaced by an empty map
ResetStore(m) == EmptyStore

StorePairs(m) == {<<k, m[k]>> : k \in DOM(m)}

(***************************************************************************)
(* Fields and reserved keys                                                *)
(***************************************************************************)
labelsPrefix == "labels."
labelsKey == <<"logging.googleapis.com/labels">>
sourceKey == <<"logging.googleapis.com/sourceLocation">>
serviceContextKey == <<"serviceContext">>
contextKey == <<"context">>
messageKey == <<"message">>

NoIface == [kind |-> "nil"]

MkField(key, type, int, str, iface) ==
  [Key |-> key, Type |-> type, Integer |-> int, String |-> str, Interface |-> iface]

\* zap.String(key, val)
String(key, val) == MkField(key, "String", 0, val, NoIface)
\* zap.Bool encodes true as 1 and false as 0; other slots are built by hand
BoolSlot(key, int) == MkField(key, "Bool", int, "", NoIface)
Int64(key, int) == MkField(key, "Int64", int, "", NoIface)
Skip == MkField(<<>>, "Skip", 0, "", NoIface)
Unknown(key) == MkField(key, "Unknown", 0, "", NoIface)
\* zap.Object(key, val)
Object(key, val) == MkField(key, "Object", 0, "", val)

\* Label(key, value) = zap.String("labels." + key, value)
Label(key, val) == String(<<labelsPrefix>> \o key, val)

\* strings.HasPrefix(field.Key, "labels.")
isLabelField(f) == Len(f.Key) >= 1 /\ f.Key[1] = labelsPrefix

\* strings.Replace(key, "labels.", "", 1): the first occurrence is removed
RECURSIVE ReplaceFirst(_)
ReplaceFirst(key) ==
  IF key = <<>> THEN <<>>
  ELSE IF Head(key) = labelsPrefix THEN Tail(key)
  ELSE <<Head(key)>> \o ReplaceFirst(Tail(key))

\* labelsField(l) = zap.Object("logging.googleapis.com/labels", l)
labelsField(l) == Object(labelsKey, [kind |-> "labels", store |-> l])

SourceLocation(cpc, file, line, ok) ==
  Object(sourceKey, [kind |-> "source", File |-> file, Line |-> line, ok |-> ok])

ServiceContext(name) ==
  Object(serviceContextKey, [kind |-> "serviceContext", Name |-> name])

ErrorReport(cpc, file, line, ok) ==
  Object(contextKey, [kind |-> "reportContext", File |-> file, Line |-> line, ok |-> ok])

HasKey(fields, key) == \E i \in 1..Len(fields) : fields[i].Key = key

(***************************************************************************)
(* extractLabels: label fields go to a fresh store (prefix stripped, the   *)
(* String slot as value), the others are appended to out in order.         *)
(***************************************************************************)
\* Variant: the first label field of a key wins.
RECURSIVE extractLoopFirstWins(_, _, _)
extractLoopFirstWins(fields, lbls, out) ==
  IF fields = <<>> THEN [lbls |-> lbls, out |-> out]
  ELSE LET f == Head(fields) IN
       IF ~isLabelField(f)
         THEN extractLoopFirstWins(Tail(fields), lbls, Append(out, f))
         ELSE extractLoopFirstWins(Tail(fields),
                          MergeStore([k \in {ReplaceFirst(f.Key)} |-> f.String], lbls),
                          out)

RECURSIVE extractLoop(_, _, _)
extractLoop(fields, lbls, out) ==
  IF fields = <<>> THEN [lbls |-> lbls, out |-> out]
  ELSE LET f == Head(fields) IN
       IF ~isLabelField(f)
         THEN extractLoop(Tail(fields), lbls, Append(out, f))
         ELSE extractLoop(Tail(fields),
                          MergeStore(lbls, [k \in {ReplaceFirst(f.Key)} |-> f.String]),
                          out)

extractLabels(fields) == extractLoop(fields, newLabels, <<>>)

(***************************************************************************)
(* ToInterface: the generic value of a field                               *)
(***************************************************************************)
Nil == [t |-> "nil", v |-> "nil"]

\* Variant: a boolean is true when its integer slot is not zero.
ToInterfaceNonZero(f) ==
  CASE f.Type = "Bool" -> [t |-> "bool", v |-> (f.Integer # 0)]
    [] f.Type = "Int64" -> [t |-> "int64", v |-> f.Integer]
    [] f.Type = "String" -> [t |-> "string", v |-> f.String]
    [] f.Type = "Object" -> [t |-> "object", v |-> f.Interface]
    [] f.Type = "Namespace" -> Nil
    [] f.Type = "Skip" -> Nil
    [] OTHER -> [t |-> "string", v |-> "unknown field type"]

ToInterface(f) ==
  CASE f.Type = "Bool" -> [t |-> "bool", v |-> (f.Integer = 1)]
    [] f.Type = "Int64" -> [t |-> "int64", v |-> f.Integer]
    [] f.Type = "String" -> [t |-> "string", v |-> f.String]
    [] f.Type = "Object" -> [t |-> "object", v |-> f.Interface]
    [] f.Type = "Namespace" -> Nil
    [] f.Type = "Skip" -> Nil
    [] OTHER -> [t |-> "string", v |-> "unknown field type"]

\* payload := map[string]interface{}{}; for _, f := range c.fields { payload[f.Key] = ToInterface(f) }
RECURSIVE payloadLoop(_, _)
payloadLoop(fields, payload) ==
  IF fields = <<>> THEN payload
  ELSE LET f == Head(fields) IN
       payloadLoop(Tail(fields),
                   [k \in DOM(payload) \cup {f.Key} |->
                      IF k = f.Key THEN ToInterface(f) ELSE payload[k]])

buildPayload(fields, message) ==
  LET p == payloadLoop(fields, [k \in {} |-> Nil]) IN
  [k \in DOM(p) \cup {messageKey} |->
     IF k = messageKey THEN [t |-> "string", v |-> message] ELSE p[k]]

(***************************************************************************)
(* Levels and severities                                                   *)
(***************************************************************************)
DebugLevel == 0 - 1
InfoLevel == 0
WarnLevel == 1
ErrorLevel == 2
DPanicLevel == 3
PanicLevel == 4
FatalLevel == 5

logLevelSeverityGoogle(l) ==
  CASE l = DebugLevel -> "Debug"
    [] l = InfoLevel -> "Info"
    [] l = WarnLevel -> "Warning"
    [] l = ErrorLevel -> "Error"
    [] l = DPanicLevel -> "Critical"
    [] l = PanicLevel -> "Alert"
    [] l = FatalLevel -> "Emergency"
    [] OTHER -> "Default"

\* zapcore.ErrorLevel.Enabled(lvl)
ErrorLevelEnabled(lvl) == lvl >= ErrorLevel

(***************************************************************************)
(* Entry decoration                                                        *)
(***************************************************************************)
\* Variant: the source location is appended without looking for the key.
withSourceLocationNoCheck(ent, fields) ==
  IF ~ent.Caller.Defined THEN fields
  ELSE Append(fields, SourceLocation(ent.Caller.PC, ent.Caller.File, ent.Caller.Line, TRUE))

withSourceLocation(ent, fields) ==
  IF HasKey(fields, sourceKey) THEN fields
  ELSE IF ~ent.Caller.Defined THEN fields
  ELSE Append(fields, SourceLocation(ent.Caller.PC, ent.Caller.File, ent.Caller.Line, TRUE))

\* Variant: the service context is appended without looking for the key.
withServiceContextAlways(name, fields) ==
  Append(fields, ServiceContext(name))

withServiceContext(name, fields) ==
  IF HasKey(fields, serviceContextKey) THEN fields
  ELSE Append(fields, ServiceContext(name))

\* Variant: the error report is appended without caller information.
withErrorReportNoCaller(ent, fields) ==
  IF HasKey(fields, contextKey) THEN fields
  ELSE Append(fields, ErrorReport(ent.Caller.PC, ent.Caller.File, ent.Caller.Line, TRUE))

withErrorReport(ent, fields) ==
  IF HasKey(fields, contextKey) THEN fields
  ELSE IF ~ent.Caller.Defined THEN fields
  ELSE Append(fields, ErrorReport(ent.Caller.PC, ent.Caller.File, ent.Caller.Line, TRUE))

\* Write, lines 248-259: the three enrichment rules
enrich(config, ent, fields) ==
  LET f2 == withSourceLocation(ent, fields)
      f3 == IF config.ServiceName # "" THEN withServiceContext(config.ServiceName, f2) ELSE f2
      f4 == IF config.ReportAllErrors /\ ErrorLevelEnabled(ent.Level)
              THEN LET g == withErrorReport(ent, f3) IN
                   IF config.ServiceName = "" THEN withServiceContext("unknown", g) ELSE g
              ELSE f3
  IN f4

\* Write, lines 247-259: the labels field and the three enrichment rules
decorate(config, ent, fields, all) ==
  enrich(config, ent, Append(fields, labelsField(all)))

(***************************************************************************)
(* Entries and configurations                                              *)
(***************************************************************************)
MkCaller(defined) ==
  [Defined |-> defined, PC |-> IF defined THEN "pc" ELSE "",
   File |-> IF defined THEN "main.go" ELSE "", Line |-> IF defined THEN 10 ELSE 0]

MkEntry(level, defined) ==
  [Level |-> level, Time |-> "now", Message |-> "msg", Caller |-> MkCaller(defined)]

MkConfig(report, name) == [ReportAllErrors |-> report, ServiceName |-> name]

NoEnt == MkEntry(InfoLevel, FALSE)
NoLog == [kind |-> "none"]

\* A core: the accumulated fields, the wrapped core (its accumulated
\* context), the shared permanent store and the configuration.  The
\* temporary store of core number i is tempStores[i].
MkCore(fields, wrapped, perm, config) ==
  [fields |-> fields, Core |-> wrapped, permLabels |-> perm, config |-> config]

\* A sync.RWMutex: the writer that holds it, the readers that hold it, and
\* the writers that have called Lock and wait; a waiting writer blocks new
\* readers.
FreeMutex == [w |-> NoThread, r |-> {}, p |-> {}]

IdleLoc ==
  [op |-> "none", c |-> 0, ent |-> NoEnt, inFields |-> <<>>, fields |-> <<>>,
   lbls |-> EmptyStore, site |-> 0, all |-> EmptyStore, glog |-> NoLog,
   sink |-> <<>>, remoteErr |-> FALSE, calls |-> <<>>, coreErr |-> "nil",
   ret |-> "nil", child |-> 0, permAtStart |-> {}, raced |-> {}]

Errs == {"nil", "err"}

(***************************************************************************)
(* Inputs of the concurrent specification: two goroutines, label fields    *)
(* that collide on a key, one configuration.                               *)
(***************************************************************************)
ConcConfigs == {MkConfig(FALSE, "")}
ConcEntries == {MkEntry(InfoLevel, TRUE)}
ConcWithFields ==
  { <<Label(<<"a">>, "p")>>,
    <<Label(<<"a">>, "q"), Label(<<"b">>, "q"), String(<<"user">>, "x")>> }
ConcWriteFields == {<<Label(<<"a">>, "w")>>, <<Label(<<"b">>, "w")>>}

(***************************************************************************)
(* Inputs of the sequential specification: every configuration, severities *)
(* below and above error, caller information present or absent, fields     *)
(* that use the reserved keys.                                             *)
(***************************************************************************)
SeqConfigs == {MkConfig(r, n) : r \in BOOLEAN, n \in {"", "svc"}}
SeqWrapConfigs == {MkConfig(TRUE, "")}
SeqEntries == {MkEntry(l, d) : l \in {WarnLevel, ErrorLevel}, d \in BOOLEAN}
SeqWithFields ==
  { <<Label(<<"a">>, "o"), String(<<"user">>, "x"), Label(<<"a">>, "p"),
      Label(<<"b">>, "p")>>,
    <<Skip, BoolSlot(<<"on">>, 1), BoolSlot(<<"off">>, 0), BoolSlot(<<"odd">>, 2)>> }
FieldUniverse ==
  { Label(<<"a">>, "w"), String(<<"status">>, "200"),
    String(sourceKey, "mine"), String(serviceContextKey, "mine"),
    String(contextKey, "mine") }

SeqUpTo(S, n) == UNION {[1..k -> S] : k \in 0..n}
SeqWriteFields == SeqUpTo(FieldUniverse, MaxFieldsLen)

(***************************************************************************)
(* Initial state: one core built by WrapCore with the remote logger set.   *)
(***************************************************************************)
InitWith(configs, n) ==
  /\ \E cfg \in configs : cores = <<MkCore(<<>>, <<>>, 1, cfg)>>
  /\ permStores = <<newLabels>>
  /\ tempStores = <<newLabels>>
  /\ permMutex = <<FreeMutex>>
  /\ tempMutex = <<FreeMutex>>
  /\ pc = [t \in Threads |-> "idle"]
  /\ loc = [t \in Threads |-> IdleLoc]
  /\ budget = n
  /\ supplied = <<{}>>

Init == InitWith(ConcConfigs, MaxOps)
SeqInit == InitWith(SeqConfigs, SeqMaxOps)

CoreIds == 1..Len(cores)
Me(t) == cores[loc[t].c]
MutexFree(m) == m.w = NoThread /\ m.r = {}
Readable(m) == m.w = NoThread /\ m.p = {}
InFlight(t) == pc[t] \notin {"idle", "done"}
WithsInFlight == {t \in Threads : InFlight(t) /\ loc[t].op = "With"}
WritesOn(c) == {t \in Threads : InFlight(t) /\ loc[t].op = "Write" /\ loc[t].c = c}

(***************************************************************************)
(* WrapCore: a new core with fresh permanent and temporary stores          *)
(***************************************************************************)
WrapCore(t, cfg) ==
  /\ pc[t] = "idle"
  /\ budget > 0
  /\ Len(cores) + Cardinality(WithsInFlight) < MaxCores
  /\ cores' = Append(cores, MkCore(<<>>, <<>>, Len(permStores) + 1, cfg))
  /\ permStores' = Append(permStores, newLabels)
  /\ tempStores' = Append(tempStores, newLabels)
  /\ permMutex' = Append(permMutex, FreeMutex)
  /\ tempMutex' = Append(tempMutex, FreeMutex)
  /\ budget' = budget - 1
  /\ supplied' = Append(supplied, {})
  /\ UNCHANGED <<pc, loc>>

(***************************************************************************)
(* With                                                                    *)
(***************************************************************************)
\* lines 88-91: lbls, fields = c.extractLabels(fields), and the call of
\* c.permLabels.mutex.Lock(), which waits.  supplied is history: the labels
\* the With calls have supplied for each permanent store.
WithBegin(t, c, fields) ==
  /\ pc[t] = "idle"
  /\ budget > 0
  /\ Len(cores) + Cardinality(WithsInFlight) < MaxCores
  /\ LET ex == extractLabels(fields) IN
     loc' = [loc EXCEPT ![t] = [IdleLoc EXCEPT !.op = "With", !.c = c,
                                  !.inFields = fields, !.lbls = ex.lbls,
                                  !.fields = ex.out]]
  /\ permMutex' = [permMutex EXCEPT ![cores[c].permLabels].p = @ \cup {t}]
  /\ supplied' = [supplied EXCEPT ![cores[c].permLabels] =
                    @ \cup StorePairs(extractLabels(fields).lbls)]
  /\ pc' = [pc EXCEPT ![t] = "c_lockPerm"]
  /\ budget' = budget - 1
  /\ UNCHANGED <<cores, permStores, tempStores, tempMutex>>

\* line 91: c.permLabels.mutex.Lock() returns
WithLockPerm(t) ==
  /\ pc[t] = "c_lockPerm"
  /\ MutexFree(permMutex[Me(t).permLabels])
  /\ permMutex' = [permMutex EXCEPT ![Me(t).permLabels].w = t,
                                    ![Me(t).permLabels].p = @ \ {t}]
  /\ pc' = [pc EXCEPT ![t] = "c_merge"]
  /\ UNCHANGED <<cores, permStores, tempStores, tempMutex, loc, budget, supplied>>

\* Variant: the labels are merged into the temporary store of the core.
WithMergeTemp(t) ==
  /\ pc[t] = "c_merge"
  /\ tempStores' = [tempStores EXCEPT ![loc[t].c] = MergeStore(@, loc[t].lbls)]
  /\ permMutex' = [permMutex EXCEPT ![Me(t).permLabels].w = NoThread]
  /\ pc' = [pc EXCEPT ![t] = "c_new"]
  /\ UNCHANGED <<cores, permStores, tempMutex, loc, budget, supplied>>

\* Variant: the permanent store is replaced by the new labels.
WithMergeReplace(t) ==
  /\ pc[t] = "c_merge"
  /\ permStores' = [permStores EXCEPT ![Me(t).permLabels] = loc[t].lbls]
  /\ permMutex' = [permMutex EXCEPT ![Me(t).permLabels].w = NoThread]
  /\ pc' = [pc EXCEPT ![t] = "c_new"]
  /\ UNCHANGED <<cores, tempStores, tempMutex, loc, budget, supplied>>

\* Variant: the permanent store is not unlocked after the merge.
WithMergeNoUnlock(t) ==
  /\ pc[t] = "c_merge"
  /\ permStores' = [permStores EXCEPT ![Me(t).permLabels] = MergeStore(@, loc[t].lbls)]
  /\ pc' = [pc EXCEPT ![t] = "c_new"]
  /\ UNCHANGED <<cores, tempStores, permMutex, tempMutex, loc, budget, supplied>>

\* lines 92-95: the merge and the unlock
WithMerge(t) ==
  /\ pc[t] = "c_merge"
  /\ permStores' = [permStores EXCEPT ![Me(t).permLabels] = MergeStore(@, loc[t].lbls)]
  /\ permMutex' = [permMutex EXCEPT ![Me(t).permLabels].w = NoThread]
  /\ pc' = [pc EXCEPT ![t] = "c_new"]
  /\ UNCHANGED <<cores, tempStores, tempMutex, loc, budget, supplied>>

\* Variant: the new fields are appended to the field list of the parent too.
WithNewShared(t) ==
  /\ pc[t] = "c_new"
  /\ cores' = Append([cores EXCEPT ![loc[t].c].fields = @ \o loc[t].fields],
                     MkCore(Me(t).fields \o loc[t].fields,
                            Me(t).Core \o loc[t].fields,
                            Me(t).permLabels, Me(t).config))
  /\ tempStores' = Append(tempStores, newLabels)
  /\ tempMutex' = Append(tempMutex, FreeMutex)
  /\ loc' = [loc EXCEPT ![t].child = Len(cores) + 1,
                        ![t].calls = Append(@, "Core.With")]
  /\ pc' = [pc EXCEPT ![t] = "done"]
  /\ UNCHANGED <<permStores, permMutex, budget, supplied>>

\* lines 98-108: the child core
WithNew(t) ==
  /\ pc[t] = "c_new"
  /\ cores' = Append(cores, MkCore(Me(t).fields \o loc[t].fields,
                                   Me(t).Core \o loc[t].fields,
                                   Me(t).permLabels, Me(t).config))
  /\ tempStores' = Append(tempStores, newLabels)
  /\ tempMutex' = Append(tempMutex, FreeMutex)
  /\ loc' = [loc EXCEPT ![t].child = Len(cores) + 1,
                        ![t].calls = Append(@, "Core.With")]
  /\ pc' = [pc EXCEPT ![t] = "done"]
  /\ UNCHANGED <<permStores, permMutex, budget, supplied>>

(***************************************************************************)
(* Write                                                                   *)
(***************************************************************************)
\* lines 209-212: lbls, fields = c.extractLabels(fields), and the call of
\* c.tempLabels.mutex.Lock(), which waits.  permAtStart and raced
\* are history: the permanent keys at the start of the write, and the labels
\* supplied by the writes on the same core that overlap with this one.
WriteBegin(t, c, ent, fields) ==
  /\ pc[t] = "idle"
  /\ budget > 0
  /\ LET ex == extractLabels(fields)
         others == WritesOn(c)
         mine == StorePairs(ex.lbls)
         theirs == UNION {StorePairs(loc[u].lbls) : u \in others}
     IN loc' = [u \in Threads |->
                  IF u = t
                    THEN [IdleLoc EXCEPT !.op = "Write", !.c = c, !.ent = ent,
                                         !.inFields = fields, !.lbls = ex.lbls,
                                         !.fields = ex.out,
                                         !.permAtStart = DOM(permStores[cores[c].permLabels]),
                                         !.raced = theirs]
                  ELSE IF u \in others
                    THEN [loc[u] EXCEPT !.raced = @ \cup mine]
                  ELSE loc[u]]
  /\ tempMutex' = [tempMutex EXCEPT ![c].p = @ \cup {t}]
  /\ pc' = [pc EXCEPT ![t] = "w_lockTemp"]
  /\ budget' = budget - 1
  /\ UNCHANGED <<cores, permStores, tempStores, permMutex, supplied>>

\* line 212: c.tempLabels.mutex.Lock() returns
WriteLockTemp(t) ==
  /\ pc[t] = "w_lockTemp"
  /\ MutexFree(tempMutex[loc[t].c])
  /\ tempMutex' = [tempMutex EXCEPT ![loc[t].c].w = t, ![loc[t].c].p = @ \ {t}]
  /\ pc' = [pc EXCEPT ![t] = "w_merge"]
  /\ UNCHANGED <<cores, permStores, tempStores, permMutex, loc, budget, supplied>>

\* Variant: the labels of the write are merged into the permanent store.
WriteMergePerm(t) ==
  /\ pc[t] = "w_merge"
  /\ permStores' = [permStores EXCEPT ![Me(t).permLabels] = MergeStore(@, loc[t].lbls)]
  /\ tempMutex' = [tempMutex EXCEPT ![loc[t].c].w = NoThread]
  /\ loc' = [loc EXCEPT ![t].site = 1, ![t].all = newLabels]
  /\ pc' = [pc EXCEPT ![t] = "al_rlockPerm"]
  /\ UNCHANGED <<cores, tempStores, permMutex, budget, supplied>>

\* lines 213-216: the merge and the unlock; then the first call of allLabels
WriteMerge(t) ==
  /\ pc[t] = "w_merge"
  /\ tempStores' = [tempStores EXCEPT ![loc[t].c] = MergeStore(@, loc[t].lbls)]
  /\ tempMutex' = [tempMutex EXCEPT ![loc[t].c].w = NoThread]
  /\ loc' = [loc EXCEPT ![t].site = 1, ![t].all = newLabels]
  /\ pc' = [pc EXCEPT ![t] = "al_rlockPerm"]
  /\ UNCHANGED <<cores, permStores, permMutex, budget, supplied>>

(***************************************************************************)
(* allLabels, called twice by Write (site 1: line 230, site 2: line 247)   *)
(***************************************************************************)
\* line 277: c.permLabels.mutex.RLock()
AllLabelsRLockPerm(t) ==
  /\ pc[t] = "al_rlockPerm"
  /\ Readable(permMutex[Me(t).permLabels])
  /\ permMutex' = [permMutex EXCEPT ![Me(t).permLabels].r = @ \cup {t}]
  /\ pc' = [pc EXCEPT ![t] = "al_copyPerm"]
  /\ UNCHANGED <<cores, permStores, tempStores, tempMutex, loc, budget, supplied>>

\* lines 278-281
AllLabelsCopyPerm(t) ==
  /\ pc[t] = "al_copyPerm"
  /\ loc' = [loc EXCEPT ![t].all = MergeStore(@, permStores[Me(t).permLabels])]
  /\ permMutex' = [permMutex EXCEPT ![Me(t).permLabels].r = @ \ {t}]
  /\ pc' = [pc EXCEPT ![t] = "al_rlockTemp"]
  /\ UNCHANGED <<cores, permStores, tempStores, tempMutex, budget, supplied>>

\* line 283: c.tempLabels.mutex.RLock()
AllLabelsRLockTemp(t) ==
  /\ pc[t] = "al_rlockTemp"
  /\ Readable(tempMutex[loc[t].c])
  /\ tempMutex' = [tempMutex EXCEPT ![loc[t].c].r = @ \cup {t}]
  /\ pc' = [pc EXCEPT ![t] = "al_copyTemp"]
  /\ UNCHANGED <<cores, permStores, tempStores, permMutex, loc, budget, supplied>>

\* Variant: the temporary labels do not overwrite the permanent ones.
AllLabelsCopyTempPermWins(t) ==
  /\ pc[t] = "al_copyTemp"
  /\ loc' = [loc EXCEPT ![t].all = MergeStore(tempStores[loc[t].c], @)]
  /\ tempMutex' = [tempMutex EXCEPT ![loc[t].c].r = @ \ {t}]
  /\ pc' = [pc EXCEPT ![t] = IF loc[t].site = 1 THEN "w_log" ELSE "w_decorate"]
  /\ UNCHANGED <<cores, permStores, tempStores, permMutex, budget, supplied>>

\* lines 284-290
AllLabelsCopyTemp(t) ==
  /\ pc[t] = "al_copyTemp"
  /\ loc' = [loc EXCEPT ![t].all = MergeStore(@, tempStores[loc[t].c])]
  /\ tempMutex' = [tempMutex EXCEPT ![loc[t].c].r = @ \ {t}]
  /\ pc' = [pc EXCEPT ![t] = IF loc[t].site = 1 THEN "w_log" ELSE "w_decorate"]
  /\ UNCHANGED <<cores, permStores, tempStores, permMutex, budget, supplied>>

\* lines 219-245: the payload, the entry and c.lg.Log(glog); failed tells
\* whether the remote client fails to deliver the entry
WriteLog(t, failed) ==
  /\ pc[t] = "w_log"
  /\ LET ent == loc[t].ent IN
     loc' = [loc EXCEPT
       ![t].glog = [Timestamp |-> ent.Time,
                    Severity |-> logLevelSeverityGoogle(ent.Level),
                    Payload |-> buildPayload(Me(t).fields, ent.Message),
                    Labels |-> loc[t].all,
                    SourceLocation |-> [File |-> ent.Caller.File, Line |-> ent.Caller.Line]],
       ![t].remoteErr = failed,
       ![t].calls = Append(@, "lg.Log"),
       ![t].site = 2,
       ![t].all = newLabels]
  /\ pc' = [pc EXCEPT ![t] = "al_rlockPerm"]
  /\ UNCHANGED <<cores, permStores, tempStores, permMutex, tempMutex, budget, supplied>>

\* Variant: the temporary store is not reset before the wrapped core is called.
WriteDecorateSkipReset(t) ==
  /\ pc[t] = "w_decorate"
  /\ loc' = [loc EXCEPT ![t].fields = decorate(Me(t).config, loc[t].ent, @, loc[t].all)]
  /\ pc' = [pc EXCEPT ![t] = "w_core"]
  /\ UNCHANGED <<cores, permStores, tempStores, permMutex, tempMutex, budget, supplied>>

\* lines 247-261: the decoration, and the call of the Lock of reset, which waits
WriteDecorate(t) ==
  /\ pc[t] = "w_decorate"
  /\ loc' = [loc EXCEPT ![t].fields = decorate(Me(t).config, loc[t].ent, @, loc[t].all)]
  /\ tempMutex' = [tempMutex EXCEPT ![loc[t].c].p = @ \cup {t}]
  /\ pc' = [pc EXCEPT ![t] = "w_resetLock"]
  /\ UNCHANGED <<cores, permStores, tempStores, permMutex, budget, supplied>>

\* line 261, c.tempLabels.reset(): the Lock returns
WriteResetLock(t) ==
  /\ pc[t] = "w_resetLock"
  /\ MutexFree(tempMutex[loc[t].c])
  /\ tempMutex' = [tempMutex EXCEPT ![loc[t].c].w = t, ![loc[t].c].p = @ \ {t}]
  /\ pc' = [pc EXCEPT ![t] = "w_reset"]
  /\ UNCHANGED <<cores, permStores, tempStores, permMutex, loc, budget, supplied>>

\* Variant: the temporary store is unlocked without being cleared.
WriteResetKeep(t) ==
  /\ pc[t] = "w_reset"
  /\ tempMutex' = [tempMutex EXCEPT ![loc[t].c].w = NoThread]
  /\ loc' = [loc EXCEPT ![t].calls = Append(@, "reset")]
  /\ pc' = [pc EXCEPT ![t] = "w_core"]
  /\ UNCHANGED <<cores, permStores, tempStores, permMutex, budget, supplied>>

\* line 261, c.tempLabels.reset(): the store is cleared and unlocked
WriteReset(t) ==
  /\ pc[t] = "w_reset"
  /\ tempStores' = [tempStores EXCEPT ![loc[t].c] = ResetStore(@)]
  /\ tempMutex' = [tempMutex EXCEPT ![loc[t].c].w = NoThread]
  /\ loc' = [loc EXCEPT ![t].calls = Append(@, "reset")]
  /\ pc' = [pc EXCEPT ![t] = "w_core"]
  /\ UNCHANGED <<cores, permStores, permMutex, budget, supplied>>

\* Variant: a failure of the remote client is returned.
WriteRetRemote(coreErr, remoteErr) == IF remoteErr THEN "err" ELSE coreErr

\* WriteRet: the value Write returns, given the wrapped core's result and
\* whether the remote client failed
WriteRet(coreErr, remoteErr) == coreErr

\* lines 263-264: err := c.Core.Write(ent, fields); return err
WriteCore(t, err) ==
  /\ pc[t] = "w_core"
  /\ loc' = [loc EXCEPT ![t].calls = Append(@, "Core.Write"),
                        ![t].sink = loc[t].fields,
                        ![t].coreErr = err,
                        ![t].ret = WriteRet(err, loc[t].remoteErr)]
  /\ pc' = [pc EXCEPT ![t] = "done"]
  /\ UNCHANGED <<cores, permStores, tempStores, permMutex, tempMutex, budget, supplied>>

(***************************************************************************)
(* Sync                                                                    *)
(***************************************************************************)
\* line 269: _ = c.lg.Flush()
SyncFlush(t, c, failed) ==
  /\ pc[t] = "idle"
  /\ budget > 0
  /\ loc' = [loc EXCEPT ![t] = [IdleLoc EXCEPT !.op = "Sync", !.c = c,
                                  !.remoteErr = failed,
                                  !.calls = <<"lg.Flush">>]]
  /\ pc' = [pc EXCEPT ![t] = "s_core"]
  /\ budget' = budget - 1
  /\ UNCHANGED <<cores, permStores, tempStores, permMutex, tempMutex, supplied>>

\* Variant: a failure of the remote flush is returned.
SyncRetRemote(coreErr, remoteErr) == IF remoteErr THEN "err" ELSE coreErr

\* SyncRet: the value Sync returns
SyncRet(coreErr, remoteErr) == coreErr

\* line 270: return c.Core.Sync()
SyncCore(t, err) ==
  /\ pc[t] = "s_core"
  /\ loc' = [loc EXCEPT ![t].calls = Append(@, "Core.Sync"),
                        ![t].coreErr = err,
                        ![t].ret = SyncRet(err, loc[t].remoteErr)]
  /\ pc' = [pc EXCEPT ![t] = "done"]
  /\ UNCHANGED <<cores, permStores, tempStores, permMutex, tempMutex, budget, supplied>>

\* The handler has returned; the goroutine drops its locals.
Return(t) ==
  /\ pc[t] = "done"
  /\ pc' = [pc EXCEPT ![t] = "idle"]
  /\ loc' = [loc EXCEPT ![t] = IdleLoc]
  /\ UNCHANGED <<cores, permStores, tempStores, permMutex, tempMutex, budget, supplied>>

(***************************************************************************)
(* Specifications                                                          *)
(***************************************************************************)
\* The steps With and Write take once they have started, and the return
Step(t) ==
  \/ WithLockPerm(t)
  \/ WithMerge(t)
  \/ WithNew(t)
  \/ WriteLockTemp(t)
  \/ WriteMerge(t)
  \/ AllLabelsRLockPerm(t)
  \/ AllLabelsCopyPerm(t)
  \/ AllLabelsRLockTemp(t)
  \/ AllLabelsCopyTemp(t)
  \/ \E failed \in BOOLEAN : WriteLog(t, failed)
  \/ WriteDecorate(t)
  \/ WriteResetLock(t)
  \/ WriteReset(t)
  \/ \E err \in Errs : WriteCore(t, err)
  \/ Return(t)

\* Goroutines call With and Write on any core concurrently: the handlers
\* that use the label stores.
Next ==
  \E t \in Threads :
    \/ \E c \in CoreIds, fields \in ConcWithFields : WithBegin(t, c, fields)
    \/ \E c \in CoreIds, ent \in ConcEntries, fields \in ConcWriteFields :
         WriteBegin(t, c, ent, fields)
    \/ Step(t)

Spec == Init /\ [][Next]_vars

\* Every goroutine that can take a step of its handler eventually takes it:
\* the scheduler runs every runnable goroutine, and the calls of the remote
\* client and of the wrapped core return.
LiveSpec == Spec /\ \A t \in Threads : WF_vars(Step(t))

\* One goroutine: no two handlers overlap.
SeqNext ==
  \E t \in {"t1"} :
    \/ \E cfg \in SeqWrapConfigs : WrapCore(t, cfg)
    \/ \E c \in CoreIds, fields \in SeqWithFields : WithBegin(t, c, fields)
    \/ \E c \in CoreIds, ent \in SeqEntries, fields \in SeqWriteFields :
         WriteBegin(t, c, ent, fields)
    \/ \E c \in CoreIds, failed \in BOOLEAN : SyncFlush(t, c, failed)
    \/ \E err \in Errs : SyncCore(t, err)
    \/ Step(t)

SeqSpec == SeqInit /\ [][SeqNext]_vars

TypeOK ==
  /\ Len(tempStores) = Len(cores)
  /\ Len(tempMutex) = Len(cores)
  /\ Len(permMutex) = Len(permStores)
  /\ Len(supplied) = Len(permStores)
  /\ Len(cores) <= MaxCores
  /\ budget >= 0

(***************************************************************************)
(* Observations used by the properties                                     *)
(***************************************************************************)
IsWrite(t) == loc[t].op = "Write"
\* the write has called c.lg.Log
Dispatched(t) == IsWrite(t) /\ loc[t].glog # NoLog
\* the write has called c.Core.Write; loc[t].sink is the field set it passed
Forwarded(t) == IsWrite(t) /\ pc[t] = "done"
\* the write has merged its labels and has not yet reset the temporary store
Holding(t) ==
  IsWrite(t) /\ pc[t] \in {"al_rlockPerm", "al_copyPerm", "al_rlockTemp", "al_copyTemp",
                           "w_log", "w_decorate", "w_resetLock", "w_reset"}

CountKey(fields, key) == Cardinality({i \in 1..Len(fields) : fields[i].Key = key})

WithKey(fields, key) ==
  LET Test(f) == f.Key = key IN SelectSeq(fields, Test)

\* the label map carried by the labels field of a field set
LabelsOf(fields) ==
  LET i == CHOOSE i \in 1..Len(fields) :
             fields[i].Key = labelsKey /\ fields[i].Interface.kind = "labels"
  IN fields[i].Interface.store

PermOf(t) == permStores[Me(t).permLabels]

\* the error-report rule of a write fires
RuleFires(t) ==
  /\ Me(t).config.ReportAllErrors
  /\ loc[t].ent.Level >= ErrorLevel
  /\ loc[t].ent.Caller.Defined
  /\ CountKey(loc[t].inFields, contextKey) = 0

AutoErrorReports(fields) ==
  Cardinality({i \in 1..Len(fields) :
     fields[i].Key = contextKey /\ fields[i].Interface.kind = "reportContext"})

UnknownServiceContexts(fields) ==
  Cardinality({i \in 1..Len(fields) :
     /\ fields[i].Key = serviceContextKey
     /\ fields[i].Interface.kind = "serviceContext"
     /\ fields[i].Interface.Name = "unknown"})

(***************************************************************************)
(* C1: a write that runs alone dispatches the permanent store overlaid     *)
(* with the labels of its own fields: every permanent key and every label  *)
(* key of the write is present, and the write's value wins on a key that   *)
(* is in both.  (SeqSpec)                                                  *)
(***************************************************************************)
C1_DispatchedUnion ==
  \A t \in Threads :
    Dispatched(t) =>
      LET perm == PermOf(t)
          own == loc[t].lbls
          d == loc[t].glog.Labels
      IN /\ DOM(d) = DOM(perm) \cup DOM(own)
         /\ \A k \in DOM(own) : d[k] = own[k]
         /\ \A k \in DOM(perm) \ DOM(own) : d[k] = perm[k]

C1_Witness ==
  \E t \in Threads :
    /\ Dispatched(t)
    /\ \E k \in DOM(PermOf(t)) \cap DOM(loc[t].lbls) : PermOf(t)[k] # loc[t].lbls[k]
    /\ DOM(PermOf(t)) \ DOM(loc[t].lbls) # {}

(***************************************************************************)
(* C2: whenever no write is in flight on a core its temporary store is     *)
(* empty; every entry of a temporary store is the label of a write in      *)
(* flight on that core, so a label supplied only to a completed write is   *)
(* in no later label union: an entry of a dispatched union is a permanent  *)
(* key, a label of the write, or a label of a write that overlaps it.      *)
(***************************************************************************)
C2_TempEmptyWhenIdle ==
  /\ \A c \in CoreIds :
       /\ WritesOn(c) = {} => tempStores[c] = EmptyStore
       /\ \A k \in DOM(tempStores[c]) :
            \E t \in WritesOn(c) :
              Holding(t) /\ k \in DOM(loc[t].lbls) /\ loc[t].lbls[k] = tempStores[c][k]
  /\ \A t \in Threads :
       Dispatched(t) =>
         \A k \in DOM(loc[t].glog.Labels) :
           \/ k \in DOM(PermOf(t))
           \/ k \in DOM(loc[t].lbls)
           \/ <<k, loc[t].glog.Labels[k]>> \in loc[t].raced

C2_Witness ==
  \E t \in Threads :
    /\ Forwarded(t)
    /\ loc[t].lbls # EmptyStore
    /\ loc[t].raced # {}
    /\ loc[t].remoteErr
    /\ WritesOn(loc[t].c) = {}
    /\ tempStores[loc[t].c] = EmptyStore

(***************************************************************************)
(* C3: every label of a write's own fields is in the label map the write   *)
(* dispatches and in the labels field it forwards, with the write's value  *)
(* unless a racing write supplied the same key.                            *)
(***************************************************************************)
OwnLabelsIn(t, m) ==
  \A k \in DOM(loc[t].lbls) :
    /\ k \in DOM(m)
    /\ \/ m[k] = loc[t].lbls[k]
       \/ \E p \in loc[t].raced : p[1] = k

C3_OwnLabelsPresent ==
  \A t \in Threads :
    /\ Dispatched(t) => OwnLabelsIn(t, loc[t].glog.Labels)
    /\ Forwarded(t) => OwnLabelsIn(t, LabelsOf(loc[t].sink))

(***************************************************************************)
(* C4: the label union a write dispatches or forwards holds only permanent *)
(* labels and the write's own labels.                                      *)
(***************************************************************************)
OnlyOwnOrPermanent(t, m) ==
  \A k \in DOM(m) :
    \/ k \in DOM(PermOf(t))
    \/ k \in DOM(loc[t].lbls) /\ m[k] = loc[t].lbls[k]

C4_NoForeignLabels ==
  \A t \in Threads :
    /\ Dispatched(t) => OnlyOwnOrPermanent(t, loc[t].glog.Labels)
    /\ Forwarded(t) => OnlyOwnOrPermanent(t, LabelsOf(loc[t].sink))

(***************************************************************************)
(* C5: a write appends one auto-derived error-report field if              *)
(* reportAllErrors is set, the severity is error or higher, the record has *)
(* caller information and no field of the write uses the error-report key; *)
(* otherwise it appends none.  (SeqSpec)                                   *)
(***************************************************************************)
C5_ErrorReportIff ==
  \A t \in Threads :
    Forwarded(t) =>
      /\ AutoErrorReports(loc[t].sink) = IF RuleFires(t) THEN 1 ELSE 0
      /\ CountKey(loc[t].sink, contextKey) =
           CountKey(loc[t].inFields, contextKey) + IF RuleFires(t) THEN 1 ELSE 0

C5_Witness ==
  \E t \in Threads :
    Forwarded(t) /\ RuleFires(t) /\ AutoErrorReports(loc[t].sink) = 1

(***************************************************************************)
(* C6: the "unknown" service context is appended only when the             *)
(* error-report rule fires and no service name is configured.  (SeqSpec)   *)
(***************************************************************************)
C6_UnknownOnlyWhenRuleFires ==
  \A t \in Threads :
    Forwarded(t) /\ UnknownServiceContexts(loc[t].sink) > 0 =>
      RuleFires(t) /\ Me(t).config.ServiceName = ""

(***************************************************************************)
(* C7: for each reserved key, when the fields of the write contain a field *)
(* with that key, the forwarded fields with that key are exactly the       *)
(* caller's, unchanged: nothing with that key is appended.  (SeqSpec)      *)
(***************************************************************************)
ReservedKeys == {sourceKey, serviceContextKey, contextKey}

C7_CallerFieldWins ==
  \A t \in Threads :
    Forwarded(t) =>
      \A key \in ReservedKeys :
        CountKey(loc[t].inFields, key) > 0 =>
          WithKey(loc[t].sink, key) = WithKey(loc[t].inFields, key)

C7_Witness ==
  \E t \in Threads :
    /\ Forwarded(t)
    /\ Me(t).config.ReportAllErrors
    /\ Me(t).config.ServiceName # ""
    /\ loc[t].ent.Level >= ErrorLevel
    /\ loc[t].ent.Caller.Defined
    /\ CountKey(loc[t].inFields, serviceContextKey) > 0
    /\ CountKey(loc[t].sink, sourceKey) = 1

(***************************************************************************)
(* C8: Write returns the result of the wrapped core's Write, also when the *)
(* remote client failed, and the wrapped core's Write is called once, after*)
(* the remote dispatch.  (SeqSpec)                                         *)
(***************************************************************************)
C8_WriteReturnsCoreResult ==
  \A t \in Threads :
    Forwarded(t) =>
      /\ loc[t].ret = loc[t].coreErr
      /\ loc[t].calls = <<"lg.Log", "reset", "Core.Write">>

C8_Witness ==
  \E t \in Threads :
    Forwarded(t) /\ loc[t].remoteErr /\ loc[t].coreErr = "nil" /\ loc[t].ret = "nil"

(***************************************************************************)
(* C9: Sync flushes the remote client, then calls the wrapped core's Sync, *)
(* also when the flush failed, and returns the wrapped core's result.      *)
(* (SeqSpec)                                                               *)
(***************************************************************************)
C9_SyncReturnsCoreResult ==
  \A t \in Threads :
    /\ loc[t].op = "Sync" => loc[t].calls[1] = "lg.Flush"
    /\ loc[t].op = "Sync" /\ pc[t] = "done" =>
         /\ loc[t].calls = <<"lg.Flush", "Core.Sync">>
         /\ loc[t].ret = loc[t].coreErr

C9_Witness ==
  \E t \in Threads :
    /\ loc[t].op = "Sync" /\ pc[t] = "done"
    /\ loc[t].remoteErr /\ loc[t].coreErr = "nil" /\ loc[t].ret = "nil"

(***************************************************************************)
(* C10: a key of a permanent store is never removed from it, and a write   *)
(* dispatches a label union that contains every key the permanent store of *)
(* its core had when the write started.                                    *)
(***************************************************************************)
PermKeysKept ==
  \A s \in 1..Len(permStores) : DOM(permStores[s]) \subseteq DOM(permStores'[s])

C10_PermanentKeysStay ==
  /\ [][PermKeysKept]_vars
  /\ [](\A t \in Threads :
          Dispatched(t) => loc[t].permAtStart \subseteq DOM(loc[t].glog.Labels))

C10_Witness ==
  \E t \in Threads :
    /\ Dispatched(t)
    /\ loc[t].c = 1
    /\ loc[t].permAtStart # {}
    /\ Len(cores) > 1

(***************************************************************************)
(* C11: no step of a write changes a permanent store, also when the write  *)
(* carries a label whose key is in the permanent store.                    *)
(***************************************************************************)
WriteStep(t) ==
  pc'[t] # pc[t] /\ (loc[t].op = "Write" \/ loc'[t].op = "Write")

C11_WriteKeepsPermanent ==
  [][(\E t \in Threads : WriteStep(t)) => permStores' = permStores]_vars

C11_Witness ==
  \E t \in Threads :
    /\ Forwarded(t)
    /\ \E k \in DOM(loc[t].lbls) \cap DOM(PermOf(t)) : PermOf(t)[k] # loc[t].lbls[k]

(***************************************************************************)
(* C12: no label update of With is lost: every entry of a permanent store  *)
(* is a key and value supplied by one With call on a core of that store,   *)
(* and once every such call has merged, the store has every key supplied.  *)
(***************************************************************************)
SuppliedKeys(s) == {p[1] : p \in supplied[s]}

AllMerged(s) ==
  \A t \in WithsInFlight : Me(t).permLabels = s => pc[t] = "c_new"

C12_NoLostLabel ==
  \A s \in 1..Len(permStores) :
    /\ StorePairs(permStores[s]) \subseteq supplied[s]
    /\ AllMerged(s) => SuppliedKeys(s) \subseteq DOM(permStores[s])

C12_Witness ==
  \E t, u \in Threads :
    /\ t # u
    /\ loc[t].op = "With" /\ loc[u].op = "With"
    /\ pc[t] \in {"c_new", "done"} /\ pc[u] \in {"c_new", "done"}
    /\ Me(t).permLabels = Me(u).permLabels
    /\ \E k \in DOM(loc[t].lbls) \cap DOM(loc[u].lbls) : loc[t].lbls[k] # loc[u].lbls[k]
    /\ DOM(loc[t].lbls) # DOM(loc[u].lbls)
    /\ SuppliedKeys(Me(t).permLabels) = DOM(PermOf(t))

(***************************************************************************)
(* C13: extractLabels partitions its input: the output fields are the      *)
(* fields without the label prefix, in order; the label store has the      *)
(* stripped key of every label field and nothing else, with the value of   *)
(* the last label field of that key.  (SeqSpec)                            *)
(***************************************************************************)
HasLabelPrefix(f) == f.Key # <<>> /\ Head(f.Key) = labelsPrefix

LabelIndexes(fields) == {i \in 1..Len(fields) : HasLabelPrefix(fields[i])}

NotLabel(fields) ==
  LET Test(f) == ~HasLabelPrefix(f) IN SelectSeq(fields, Test)

\* the fields of loc[t] are still the output of extractLabels
Classified(t) ==
  \/ loc[t].op = "With"
  \/ IsWrite(t) /\ pc[t] \in {"w_lockTemp", "w_merge", "al_rlockPerm", "al_copyPerm",
                             "al_rlockTemp", "al_copyTemp", "w_log", "w_decorate"}

C13_ClassifierPartition ==
  \A t \in Threads :
    Classified(t) =>
      LET in == loc[t].inFields
          idx == LabelIndexes(in)
      IN /\ loc[t].fields = NotLabel(in)
         /\ Len(loc[t].fields) + Cardinality(idx) = Len(in)
         /\ DOM(loc[t].lbls) = {Tail(in[i].Key) : i \in idx}
         /\ \A i \in idx :
              (\A j \in idx : j > i => in[j].Key # in[i].Key) =>
                loc[t].lbls[Tail(in[i].Key)] = in[i].String

C13_Witness ==
  \E t \in Threads :
    /\ Classified(t)
    /\ \E i, j \in LabelIndexes(loc[t].inFields) :
         /\ i < j
         /\ loc[t].inFields[i].Key = loc[t].inFields[j].Key
         /\ loc[t].inFields[i].String # loc[t].inFields[j].String
         /\ loc[t].lbls[Tail(loc[t].inFields[j].Key)] = loc[t].inFields[j].String
    /\ Len(loc[t].fields) > 0

(***************************************************************************)
(* C14: the key of an accumulated field with the skip marker is not in the *)
(* payload dispatched to the remote client (unless another accumulated     *)
(* field has the same key).  (SeqSpec)                                     *)
(***************************************************************************)
C14_SkipOmitted ==
  \A t \in Threads :
    Dispatched(t) =>
      LET fs == Me(t).fields IN
      \A i \in 1..Len(fs) :
        /\ fs[i].Type = "Skip"
        /\ \A j \in 1..Len(fs) : fs[j].Key = fs[i].Key => fs[j].Type = "Skip"
        => fs[i].Key \notin DOM(loc[t].glog.Payload)

(***************************************************************************)
(* C15: the payload value of a boolean field.  As amended: it is true if   *)
(* and only if the integer slot is 1.  As claimed: it is true if and only  *)
(* if the integer slot is not zero.  (SeqSpec)                             *)
(***************************************************************************)
\* the boolean fields of the core of a write whose value the payload holds
BoolFields(t) ==
  LET fs == Me(t).fields IN
  {fs[i] : i \in {i \in 1..Len(fs) :
                    /\ fs[i].Type = "Bool"
                    /\ \A j \in 1..Len(fs) : j > i => fs[j].Key # fs[i].Key}}

C15_BoolIsOne ==
  \A t \in Threads :
    Dispatched(t) =>
      \A f \in BoolFields(t) :
        /\ loc[t].glog.Payload[f.Key].t = "bool"
        /\ loc[t].glog.Payload[f.Key].v <=> f.Integer = 1

C15_BoolIsNonZero ==
  \A t \in Threads :
    Dispatched(t) =>
      \A f \in BoolFields(t) :
        /\ loc[t].glog.Payload[f.Key].t = "bool"
        /\ loc[t].glog.Payload[f.Key].v <=> f.Integer # 0

C15_Witness ==
  \E t \in Threads :
    /\ Dispatched(t)
    /\ \E f \in BoolFields(t) : f.Integer = 1 /\ loc[t].glog.Payload[f.Key].v
    /\ \E f \in BoolFields(t) : f.Integer = 0 /\ ~loc[t].glog.Payload[f.Key].v
    /\ \E f \in BoolFields(t) : f.Integer = 2 /\ ~loc[t].glog.Payload[f.Key].v

(***************************************************************************)
(* C16: a write calls the remote client's Log, then resets the temporary   *)
(* store, then calls the wrapped core's Write, once each and in this       *)
(* order; when the wrapped core's Write begins, what the temporary store   *)
(* holds are labels of other writes in flight, not the labels this write   *)
(* put there.                                                              *)
(***************************************************************************)
WriteCalls == <<"lg.Log", "reset", "Core.Write">>

IsPrefix(s, full) == Len(s) <= Len(full) /\ s = SubSeq(full, 1, Len(s))

C16_WriteOrder ==
  \A t \in Threads :
    IsWrite(t) =>
      /\ IsPrefix(loc[t].calls, WriteCalls)
      /\ pc[t] = "w_core" => loc[t].calls = <<"lg.Log", "reset">>
      /\ pc[t] = "done" => loc[t].calls = WriteCalls
      /\ pc[t] \in {"w_core", "done"} =>
           \A k \in DOM(tempStores[loc[t].c]) :
             \E u \in WritesOn(loc[t].c) \ {t} :
               /\ Holding(u)
               /\ k \in DOM(loc[u].lbls)
               /\ loc[u].lbls[k] = tempStores[loc[t].c][k]

C16_Witness ==
  \E t \in Threads :
    /\ IsWrite(t)
    /\ pc[t] = "w_core"
    /\ loc[t].lbls # EmptyStore
    /\ loc[t].calls = <<"lg.Log", "reset">>
    /\ tempStores[loc[t].c] # EmptyStore

(***************************************************************************)
(* C17: With leaves every existing core as it is and adds one core whose   *)
(* fields are the parent's followed by the new fields that are not labels, *)
(* with an empty temporary store; the payload of a write has the keys of   *)
(* its own core's fields and the message, nothing of another core.         *)
(***************************************************************************)
KeysOf(fields) == {fields[i].Key : i \in 1..Len(fields)}

ChildAdded ==
  /\ \A i \in 1..Len(cores) : cores'[i] = cores[i]
  /\ Len(cores') # Len(cores) =>
       \E t \in Threads :
         /\ loc[t].op = "With" /\ pc[t] = "c_new" /\ pc'[t] = "done"
         /\ Len(cores') = Len(cores) + 1
         /\ loc'[t].child = Len(cores')
         /\ cores'[Len(cores')].fields = cores[loc[t].c].fields \o NotLabel(loc[t].inFields)
         /\ cores'[Len(cores')].permLabels = cores[loc[t].c].permLabels
         /\ tempStores'[Len(cores')] = EmptyStore

C17_ChildFields ==
  /\ [][ChildAdded]_vars
  /\ [](\A t \in Threads :
          Dispatched(t) =>
            DOM(loc[t].glog.Payload) = KeysOf(Me(t).fields) \cup {messageKey})

C17_Witness ==
  \E t, u \in Threads :
    /\ t # u
    /\ loc[t].op = "With" /\ loc[u].op = "With"
    /\ pc[t] = "done" /\ pc[u] = "done"
    /\ loc[t].c = 1 /\ loc[u].c = 1
    /\ cores[loc[t].child].fields # cores[loc[u].child].fields
    /\ cores[1].fields = <<>>

(***************************************************************************)
(* C18: the three enrichment rules, applied again to the field set a write *)
(* forwards, append nothing; a reserved key that the caller's fields have  *)
(* at most once is at most once in the forwarded fields.  (SeqSpec)        *)
(***************************************************************************)
C18_DecoratorIdempotent ==
  \A t \in Threads :
    Forwarded(t) =>
      /\ enrich(Me(t).config, loc[t].ent, loc[t].sink) = loc[t].sink
      /\ \A key \in ReservedKeys :
           CountKey(loc[t].inFields, key) <= 1 => CountKey(loc[t].sink, key) <= 1

C18_Witness ==
  \E t \in Threads :
    /\ Forwarded(t)
    /\ Me(t).config.ReportAllErrors
    /\ Me(t).config.ServiceName = ""
    /\ loc[t].ent.Level >= ErrorLevel
    /\ loc[t].ent.Caller.Defined
    /\ \A key \in ReservedKeys :
         CountKey(loc[t].inFields, key) = 0 /\ CountKey(loc[t].sink, key) = 1

(***************************************************************************)
(* C19: the label map a write dispatches to the remote client equals the   *)
(* label map of the labels field it forwards to the wrapped core.          *)
(***************************************************************************)
C19_SameUnion ==
  \A t \in Threads :
    Forwarded(t) => loc[t].glog.Labels = LabelsOf(loc[t].sink)

(***************************************************************************)
(* C20: every With and every Write that has started returns, and when no   *)
(* handler is in progress no mutex of a label store is held or waited for. *)
(* (LiveSpec)                                                              *)
(***************************************************************************)
Released(m) == m.w = NoThread /\ m.r = {} /\ m.p = {}

NoLockHeld ==
  /\ \A s \in 1..Len(permMutex) : Released(permMutex[s])
  /\ \A c \in 1..Len(tempMutex) : Released(tempMutex[c])

C20_NoDeadlock ==
  /\ []((\A t \in Threads : ~InFlight(t)) => NoLockHeld)
  /\ \A t \in Threads : InFlight(t) ~> pc[t] = "done"

C20_Witness ==
  \E t, u \in Threads :
    /\ t # u
    /\ loc[u].op = "With" /\ pc[u] = "c_merge"
    /\ IsWrite(t) /\ pc[t] = "al_rlockPerm"
    /\ Me(t).permLabels = Me(u).permLabels
    /\ permMutex[Me(u).permLabels].w = u

====
